---- MODULE Spec2Model ----
(***************************************************************************)
(* Phonodex metadata resolution engine: the rate limiter, the request      *)
(* executor, the result cache and the candidate matcher of                 *)
(* src/api_client.py, src/utils/metadata.py and src/main.py.               *)
(*                                                                         *)
(* Python strings are sequences of one-character strings, so that case     *)
(* folding, stripping, splitting and containment are computed, not assumed.*)
(***************************************************************************)
EXTENDS Integers, Sequences, FiniteSets, TLC

(***************************************************************************)
(* str methods used by the matcher                                         *)
(***************************************************************************)
UpperChars == <<"A", "B", "C", "E", "K", "L", "N", "O", "R", "U", "W", "X">>
LowerChars == <<"a", "b", "c", "e", "k", "l", "n", "o", "r", "u", "w", "x">>

\* str.lower() on one character
LowerChar(c) ==
    IF \E i \in 1..Len(UpperChars) : UpperChars[i] = c
    THEN LowerChars[CHOOSE i \in 1..Len(UpperChars) : UpperChars[i] = c]
    ELSE c

\* str.upper() on one character
UpperChar(c) ==
    IF \E i \in 1..Len(LowerChars) : LowerChars[i] = c
    THEN UpperChars[CHOOSE i \in 1..Len(LowerChars) : LowerChars[i] = c]
    ELSE c

\* s.lower()
Lower(s) == [i \in 1..Len(s) |-> LowerChar(s[i])]

\* s.upper()
Upper(s) == [i \in 1..Len(s) |-> UpperChar(s[i])]

\* s.strip(): leading and trailing blanks removed
Strip(s) ==
    IF \A i \in 1..Len(s) : s[i] = " "
    THEN << >>
    ELSE LET first == CHOOSE i \in 1..Len(s) :
                          s[i] # " " /\ \A j \in 1..(i - 1) : s[j] = " "
             last  == CHOOSE i \in 1..Len(s) :
                          s[i] # " " /\ \A j \in (i + 1)..Len(s) : s[j] = " "
         IN  SubSeq(s, first, last)

\* s.replace(" ", "")
RECURSIVE RemoveSpaces(_)
RemoveSpaces(s) ==
    IF s = << >> THEN << >>
    ELSE IF Head(s) = " " THEN RemoveSpaces(Tail(s))
    ELSE <<Head(s)>> \o RemoveSpaces(Tail(s))

\* sub in s
Contains(sub, s) ==
    \E i \in 1..(Len(s) - Len(sub) + 1) : SubSeq(s, i, i + Len(sub) - 1) = sub

Separator == <<" ", "-", " ">>

\* s.split(' - ')[0]
BeforeSeparator(s) ==
    LET i == CHOOSE k \in 1..(Len(s) - 2) :
                 /\ SubSeq(s, k, k + 2) = Separator
                 /\ \A j \in 1..(k - 1) : SubSeq(s, j, j + 2) # Separator
    IN  SubSeq(s, 1, i - 1)

\* ' - '.join(s.split(' - ')[1:])
AfterSeparator(s) ==
    LET i == CHOOSE k \in 1..(Len(s) - 2) :
                 /\ SubSeq(s, k, k + 2) = Separator
                 /\ \A j \in 1..(k - 1) : SubSeq(s, j, j + 2) # Separator
    IN  SubSeq(s, i + 3, Len(s))

\* s.replace(" ", "", 1): only the first blank is removed
RemoveFirstSpace(s) ==
    IF \E i \in 1..Len(s) : s[i] = " "
    THEN LET i == CHOOSE k \in 1..Len(s) : s[k] = " " /\ \A j \in 1..(k - 1) : s[j] # " "
         IN  SubSeq(s, 1, i - 1) \o SubSeq(s, i + 1, Len(s))
    ELSE s

\* the normalization with replace(" ", "", 1)
NormalizeCatalog_FirstSpace(catno) == Upper(RemoveFirstSpace(catno))

\* catno.replace(" ", "").upper()
NormalizeCatalog(catno) == Upper(RemoveSpaces(catno))

NONE == <<"N", "O", "N", "E">>
UNKNOWN == <<"U", "N", "K", "N", "O", "W", "N">>

(***************************************************************************)
(* CandidateMatcher: the selection part of fetch_metadata and              *)
(* select_by_frequency.  A release is one element of the "results" list:   *)
(* title and catno are strings ("" when the key is missing), year is a     *)
(* positive number when it is an int or a string of digits, 0 when it is   *)
(* missing or falsy, -1 when it is a non-digit string; nonempty is FALSE   *)
(* for the dict {} only, which Python treats as false.                     *)
(***************************************************************************)
NoRelease == [title |-> << >>, catno |-> << >>, year |-> 0, nonempty |-> FALSE]

\* a == b or a in b or b in a
FuzzyMatch(a, b) == a = b \/ Contains(a, b) \/ Contains(b, a)

\* release.get('title', '').lower()
ReleaseTitle(r) == Lower(r.title)

HasSeparator(r) == Contains(Separator, ReleaseTitle(r))

\* parts[0].strip()
ReleaseArtist(r) == Strip(BeforeSeparator(ReleaseTitle(r)))

\* ' - '.join(parts[1:]).strip()
ReleaseAlbum(r) == Strip(AfterSeparator(ReleaseTitle(r)))

\* catno is non-empty and is not the literal NONE
UsableCatno(r) == Strip(r.catno) # << >> /\ Upper(Strip(r.catno)) # NONE

ArtistMatch(r, artist) == FuzzyMatch(Lower(ReleaseArtist(r)), Lower(artist))

IsExactAlbumMatch(r, artist, album) ==
    IF HasSeparator(r)
    THEN ArtistMatch(r, artist) /\ FuzzyMatch(Lower(ReleaseAlbum(r)), Lower(album))
    ELSE Contains(Lower(album), ReleaseTitle(r)) \/ Contains(ReleaseTitle(r), Lower(album))

ExactAlbumMatches(releases, artist, album) ==
    SelectSeq(releases, LAMBDA r : IsExactAlbumMatch(r, artist, album))

ExactArtistMatches(releases, artist) ==
    SelectSeq(releases, LAMBDA r : HasSeparator(r) /\ ArtistMatch(r, artist))

TargetReleases(releases, artist, album) ==
    LET exact_album_matches == ExactAlbumMatches(releases, artist, album)
        exact_artist_matches == ExactArtistMatches(releases, artist)
    IN  IF exact_album_matches # << >>
        THEN exact_album_matches
        ELSE IF exact_artist_matches # << >>
             THEN exact_artist_matches
             ELSE releases

IsExactAlbumTitle(r, album) ==
    Lower(IF HasSeparator(r) THEN ReleaseAlbum(r) ELSE ReleaseTitle(r)) = Lower(album)

ExactAlbumTitleMatches(releases, artist, album) ==
    SelectSeq(TargetReleases(releases, artist, album),
              LAMBDA r : IsExactAlbumTitle(r, album))

NonNone(releases) == SelectSeq(releases, LAMBDA r : UsableCatno(r))

\* the filter without the stage of the exact album titles
FilteredReleases_NoExactStage(releases, artist, album) ==
    LET target == TargetReleases(releases, artist, album)
    IN  IF NonNone(target) # << >> THEN NonNone(target) ELSE target

\* the filter with the narrowing to usable catalog numbers left out
FilteredReleases_KeepAllExact(releases, artist, album) ==
    LET exact  == ExactAlbumTitleMatches(releases, artist, album)
        target == TargetReleases(releases, artist, album)
    IN  IF exact # << >>
        THEN exact
        ELSE IF NonNone(target) # << >> THEN NonNone(target) ELSE target

FilteredReleases(releases, artist, album) ==
    LET target == TargetReleases(releases, artist, album)
        exact  == SelectSeq(target, LAMBDA r : IsExactAlbumTitle(r, album))
        non_none_exact_matches == NonNone(exact)
        non_none_releases == NonNone(target)
    IN  IF exact # << >>
        THEN IF non_none_exact_matches # << >> THEN non_none_exact_matches ELSE exact
        ELSE IF non_none_releases # << >> THEN non_none_releases ELSE target

InSeq(x, s) == \E i \in 1..Len(s) : s[i] = x

\* list.sort(key=int(year)) is stable: equal years keep their order
RECURSIVE InsertByYear(_, _)
InsertByYear(r, sorted) ==
    IF sorted = << >> THEN <<r>>
    ELSE IF Head(sorted).year <= r.year
         THEN <<Head(sorted)>> \o InsertByYear(r, Tail(sorted))
         ELSE <<r>> \o sorted

RECURSIVE SortByYear(_)
SortByYear(s) ==
    IF s = << >> THEN << >>
    ELSE InsertByYear(s[Len(s)], SortByYear(SubSeq(s, 1, Len(s) - 1)))

ReleasesWithYear(filtered) == SortByYear(SelectSeq(filtered, LAMBDA r : r.year > 0))

\* the first year-sorted release that re-verifies, else the first one
ReVerified(r, releases, artist, album) ==
    IF HasSeparator(r)
    THEN ArtistMatch(r, artist)
    ELSE InSeq(r, ExactAlbumMatches(releases, artist, album))

\* the year-sorted list taken from its end: the newest release
OldestRelease_Newest(withYear, releases, artist, album) == withYear[Len(withYear)]

OldestRelease(withYear, releases, artist, album) ==
    LET ok == SelectSeq(withYear, LAMBDA r : ReVerified(r, releases, artist, album))
        found == IF ok # << >> THEN ok[1] ELSE NoRelease
    IN  IF found.nonempty THEN found ELSE withYear[1]

\* collections.Counter: occurrences of x in s
Count(x, s) == Cardinality({i \in 1..Len(s) : s[i] = x})

\* Counter.most_common(): distinct values by descending count, ties in
\* order of first occurrence
FirstMostCommon(s) ==
    LET i == CHOOSE k \in 1..Len(s) :
                 /\ \A j \in 1..Len(s) : Count(s[j], s) <= Count(s[k], s)
                 /\ \A j \in 1..(k - 1) : Count(s[j], s) < Count(s[k], s)
    IN  s[i]

MostCommon2(s) ==
    LET first == FirstMostCommon(s)
        rest  == SelectSeq(s, LAMBDA x : x # first)
    IN  IF rest = << >> THEN <<first>> ELSE <<first, FirstMostCommon(rest)>>

\* the (release, normalized catalog) pair; release = NoRelease stands for None
Selection(r, c) == [release |-> r, catalog |-> c]

select_by_frequency(releases) ==
    LET usable == SelectSeq(releases, LAMBDA r : UsableCatno(r))
        all_catalog_numbers == [i \in 1..Len(usable) |-> Upper(Strip(usable[i].catno))]
        withAny == SelectSeq(releases, LAMBDA r : Strip(r.catno) # << >>)
        most_common == MostCommon2(all_catalog_numbers)
        first_normalized == NormalizeCatalog(most_common[1])
        normalized_catalog ==
            IF (Len(most_common) > 1 /\ first_normalized = NONE) \/ first_normalized = << >>
            THEN NormalizeCatalog(most_common[2])
            ELSE first_normalized
        matching == SelectSeq(releases,
                        LAMBDA r : NormalizeCatalog(Upper(Strip(r.catno))) = normalized_catalog)
    IN  IF all_catalog_numbers = << >>
        THEN IF withAny # << >>
             THEN Selection(withAny[1], NormalizeCatalog(Strip(withAny[1].catno)))
             ELSE IF releases # << >>
                  THEN Selection(releases[1], UNKNOWN)
                  ELSE Selection(NoRelease, << >>)
        ELSE IF matching # << >> /\ matching[1].nonempty
             THEN Selection(matching[1], normalized_catalog)
             ELSE Selection(releases[1], normalized_catalog)

\* oldest-first selection, else selection by frequency
SelectRelease(filtered, releases, artist, album) ==
    LET withYear == ReleasesWithYear(filtered)
        oldest   == OldestRelease(withYear, releases, artist, album)
        catno    == Strip(oldest.catno)
    IN  IF withYear # << >>
        THEN IF catno # << >> /\ Upper(catno) # NONE
             THEN Selection(oldest, NormalizeCatalog(catno))
             ELSE IF InSeq(oldest, ExactAlbumTitleMatches(releases, artist, album))
                  THEN Selection(oldest, NONE)
                  ELSE select_by_frequency(filtered)
        ELSE select_by_frequency(filtered)

\* "last resort" loop over filtered_releases
LastResort(sel, filtered) ==
    LET usable == SelectSeq(filtered, LAMBDA r : UsableCatno(r))
    IN  IF sel.release.nonempty /\ sel.catalog # << >>
        THEN sel
        ELSE IF usable # << >>
             THEN Selection(usable[1], NormalizeCatalog(Strip(usable[1].catno)))
             ELSE sel

\* The matcher as a whole: the selection, or NoRelease when fetch_metadata
\* returns None after a non-empty result list
CandidateMatcher(releases, artist, album) ==
    LET filtered == FilteredReleases(releases, Strip(artist), Strip(album))
        sel == LastResort(SelectRelease(filtered, releases, Strip(artist), Strip(album)),
                          filtered)
    IN  IF filtered = << >> THEN Selection(NoRelease, << >>)
        ELSE IF sel.release.nonempty /\ sel.catalog # << >>
             THEN sel
             ELSE Selection(NoRelease, << >>)

(***************************************************************************)
(* State                                                                   *)
(***************************************************************************)
VARIABLES
    \* CandidateMatcher applied to one query: its inputs and its result
    mArtist, mAlbum, mReleases, mResult, mDone,
    \* catalog normalization applied to one string: the string and what
    \* normalization has made of it so far
    nCatno, nNormalized,
    \* the rate-limit globals; window_age stands for first_request_time
    rate_limit_total, rate_limit_used, rate_limit_remaining, window_age,
    \* ticks each sleeping thread still sleeps
    sleep_left,
    \* the last rate-limiter call that returned or raised (history)
    lastCall,
    \* requests sent since the window was last reset (history)
    sent_in_window,
    \* per thread: where it is, the requests its current call has sent
    \* (history) and how its last call ended (history)
    pc, reqs, ret,
    \* per thread: the value of a rate-limit global that it has read for an
    \* assignment and not yet written back
    loaded,
    \* fetch_metadata, per thread: the locals of the running call (with those
    \* of the make_api_request it is in) and the metadata it built or returned
    frame, meta,
    \* fetch_metadata, per thread: response_headers of the running call, and
    \* after its return the headers it returned; 0 is None, n the headers of
    \* the response to the n-th request of the call
    response_headers,
    \* the module globals of utils/metadata.py; cache_lock is its holder
    album_catalog_cache, failed_search_cache, cache_lock,
    \* history of the resolve calls: the keys some call has returned for, the
    \* keys some call has found no results for, and per thread whether its
    \* call began after such a return
    returned, zeroDone, after, afterZero,
    \* history of the cache writes: each key written, with the normalized
    \* (artist, album) of the call that wrote it
    writers,
    \* responses other than 200 and failed connections so far
    faults

matchVars  == <<mArtist, mAlbum, mReleases, mResult, mDone, nCatno, nNormalized>>
rateVars   == <<rate_limit_total, rate_limit_used, rate_limit_remaining, window_age>>
limVars    == <<rateVars, sleep_left, lastCall, sent_in_window>>
threadVars == <<pc, reqs, ret>>
cacheVars  == <<album_catalog_cache, failed_search_cache, cache_lock>>
histVars   == <<returned, zeroDone, after, afterZero, writers>>
resolveVars == <<frame, meta, response_headers, cacheVars, histVars, faults>>

vars == <<matchVars, limVars, threadVars, loaded, resolveVars>>

(***************************************************************************)
(* RateLimiter: enforce_api_limit, update_rate_limits_from_headers and     *)
(* update_api_progress of api_client.py.                                   *)
(*                                                                         *)
(* Time is counted in ticks.  The code compares time.time() with           *)
(* first_request_time only through their difference, so the state keeps    *)
(* that difference: window_age is time.time() - first_request_time, cut    *)
(* off one tick past the window length, and Unset while                    *)
(* first_request_time == 0.  A sleeping thread keeps the ticks it still    *)
(* has to sleep.  The budget and the window length are scaled down from    *)
(* 60 calls and 60 s.                                                      *)
(***************************************************************************)
\* Config.API["RATE_LIMIT"], scaled
RATE_LIMIT == 2
\* Config.API_RATE_LIMIT_WAIT, scaled
API_RATE_LIMIT_WAIT == 3
\* rate_limit_used is not counted beyond this
MaxUsed == 4

Threads == {"t1", "t2"}

Unset == -1

Digits == <<"0", "1", "2", "3", "4", "5", "6", "7", "8", "9">>

IsDigit(c) == \E i \in 1..10 : Digits[i] = c

DigitValue(c) == (CHOOSE i \in 1..10 : Digits[i] = c) - 1

RECURSIVE DigitsValue(_)
DigitsValue(s) ==
    IF s = << >> THEN 0
    ELSE 10 * DigitsValue(SubSeq(s, 1, Len(s) - 1)) + DigitValue(s[Len(s)])

\* int(s) for a str: blanks around, an optional sign, then digits; anything
\* else is a ValueError (ok = FALSE)
ParseInt(s) ==
    LET t == Strip(s)
        signed == t # << >> /\ t[1] \in {"-", "+"}
        body == IF signed THEN Tail(t) ELSE t
    IN  IF body # << >> /\ \A i \in 1..Len(body) : IsDigit(body[i])
        THEN [ok |-> TRUE,
              val |-> IF signed /\ t[1] = "-" THEN 0 - DigitsValue(body)
                      ELSE DigitsValue(body)]
        ELSE [ok |-> FALSE, val |-> 0]

\* int(n) for a number
Parsed(n) == [ok |-> TRUE, val |-> n]

\* one header of a response: present or not, and its text
Header(text) == [present |-> TRUE, text |-> text]
Absent == [present |-> FALSE, text |-> << >>]

\* the rate-limit headers of a response; mapping = FALSE is a headers
\* argument that is None, empty or has no get()
RateHeaders(t, u, r) == [mapping |-> TRUE, total |-> t, used |-> u, remaining |-> r]
NoHeaders == [mapping |-> FALSE, total |-> Absent, used |-> Absent, remaining |-> Absent]

MaxOf(a, b) == IF a >= b THEN a ELSE b
MinOf(a, b) == IF a <= b THEN a ELSE b

\* the module globals as one record
Rate(total, used, remaining, age) ==
    [total |-> total, used |-> used, remaining |-> remaining, age |-> age]

CurrentRate ==
    Rate(rate_limit_total, rate_limit_used, rate_limit_remaining, window_age)

SetRate(r) ==
    /\ rate_limit_total' = r.total
    /\ rate_limit_used' = r.used
    /\ rate_limit_remaining' = r.remaining
    /\ window_age' = r.age

\* current_time - first_request_time > Config.API_RATE_LIMIT_WAIT
\* (first_request_time == 0 makes the difference the time since the epoch)
WindowOver(r) == r.age = Unset \/ r.age > API_RATE_LIMIT_WAIT

\* update_api_progress(state=None): the window check of a direct call
update_api_progress(r) ==
    IF WindowOver(r) THEN [r EXCEPT !.remaining = r.total, !.used = 0] ELSE r

\* the failsafe of update_rate_limits_from_headers
ObserveFallback(r, progress_callback) ==
    LET counted == [r EXCEPT !.used = r.used + 1,
                             !.remaining = MaxOf(0, r.remaining - 1)]
    IN  IF progress_callback THEN update_api_progress(counted) ELSE counted

\* if first_request_time == 0: first_request_time = time.time()
StartIfUnset(age) == IF age = Unset THEN 0 ELSE age

\* the header branch with remaining recomputed locally
ObserveHeaders_Recomputed(r, h) ==
    LET total == ParseInt(h.total.text)
        used  == IF h.used.present THEN ParseInt(h.used.text) ELSE Parsed(0)
    IN  IF ~total.ok THEN [rate |-> r, raised |-> TRUE]
        ELSE IF ~used.ok THEN [rate |-> [r EXCEPT !.total = total.val], raised |-> TRUE]
        ELSE [rate |-> Rate(total.val, used.val, total.val - used.val, StartIfUnset(r.age)),
              raised |-> FALSE]

\* the branch "'X-Discogs-Ratelimit' in headers": the three assignments in
\* order, each int() able to raise ValueError and to leave the earlier
\* assignments in place
ObserveHeaders(r, h) ==
    LET total == ParseInt(h.total.text)
        used  == IF h.used.present THEN ParseInt(h.used.text) ELSE Parsed(0)
        remaining == IF h.remaining.present THEN ParseInt(h.remaining.text)
                     ELSE Parsed(total.val - used.val)
    IN  IF ~total.ok THEN [rate |-> r, raised |-> TRUE]
        ELSE IF ~used.ok THEN [rate |-> [r EXCEPT !.total = total.val], raised |-> TRUE]
        ELSE IF ~remaining.ok
             THEN [rate |-> [r EXCEPT !.total = total.val, !.used = used.val],
                   raised |-> TRUE]
        ELSE [rate |-> Rate(total.val, used.val, remaining.val, StartIfUnset(r.age)),
              raised |-> FALSE]

\* update_rate_limits_from_headers(headers, progress_callback=...)
update_rate_limits_from_headers(r, h, progress_callback) ==
    IF ~h.mapping THEN [rate |-> ObserveFallback(r, progress_callback), raised |-> FALSE]
    ELSE IF h.total.present THEN ObserveHeaders(r, h)
    ELSE [rate |-> ObserveFallback(r, progress_callback), raised |-> FALSE]

\* enforce_api_limit: "first request or new window"
NewWindow(r) == r.age = Unset \/ r.age >= API_RATE_LIMIT_WAIT

\* enforce_api_limit: first_request_time = time.time() and the counters reset
ResetWindow(r) == [r EXCEPT !.age = 0, !.remaining = r.total, !.used = 0]

\* wait_time = Config.API_RATE_LIMIT_WAIT - time_since_first_request
WaitTime(r) == API_RATE_LIMIT_WAIT - r.age

NoCall == [op |-> "none", headers |-> NoHeaders, callback |-> FALSE,
           raised |-> FALSE, allowed |-> FALSE]

\* the module globals as the module body sets them
LimiterIdle ==
    /\ rate_limit_total = RATE_LIMIT
    /\ rate_limit_used = 0
    /\ rate_limit_remaining = RATE_LIMIT
    /\ window_age = Unset
    /\ sleep_left = [t \in Threads |-> 0]
    /\ lastCall = NoCall
    /\ sent_in_window = 0

ThreadsIdle ==
    /\ pc = [t \in Threads |-> "idle"]
    /\ reqs = [t \in Threads |-> 0]
    /\ ret = [t \in Threads |-> "none"]
    /\ loaded = [t \in Threads |-> 0]

\* cache_lock when no thread holds it
Free == "free"

\* fetch_metadata's arguments when no call is running
NoArgs == [artist |-> << >>, album |-> << >>, title |-> << >>]

\* (None, None) of make_api_request
NoData == [truthy |-> FALSE, dict |-> FALSE, results |-> << >>]

\* the locals of fetch_metadata and of its make_api_request when the call
\* begins: genuine says that every make_api_request so far returned a body,
\* failed that every one so far returned (None, None),
\* httpErr that the running make_api_request has met a 4xx/5xx status
\* other than 429, execReqs counts the requests it has sent
IdleFrame ==
    [args |-> NoArgs, query |-> 0, attempts |-> 0, execReqs |-> 0,
     httpErr |-> FALSE, genuine |-> TRUE, failed |-> TRUE,
     response_data |-> NoData]

\* no metadata dictionary
NoMeta == [catalog_number |-> << >>, year |-> 0, album |-> << >>]

\* utils/metadata.py as the module body leaves it, no call made yet
ResolveIdle ==
    /\ frame = [t \in Threads |-> IdleFrame]
    /\ meta = [t \in Threads |-> NoMeta]
    /\ response_headers = [t \in Threads |-> 0]
    /\ album_catalog_cache = << >>
    /\ failed_search_cache = {}
    /\ cache_lock = Free
    /\ returned = {}
    /\ zeroDone = {}
    /\ writers = {}
    /\ after = [t \in Threads |-> FALSE]
    /\ afterZero = [t \in Threads |-> FALSE]
    /\ faults = 0

\* numbers the server reports in a rate-limit header
NumericTexts == { <<"1">>, <<"3">> }

\* the headers argument of an observe call: every triple of reported
\* numbers, an exhausted budget of 0, headers that are missing in part or in
\* whole, non-numeric values, and an argument that is no mapping
HeaderSets ==
    {RateHeaders(Header(t), Header(u), Header(r)) :
        t \in NumericTexts, u \in NumericTexts, r \in NumericTexts}
    \cup { RateHeaders(Header(<<"0">>), Header(<<"0">>), Header(<<"0">>)),
           RateHeaders(Header(<<"3">>), Absent, Absent),
           RateHeaders(Absent, Absent, Absent),
           RateHeaders(Header(<<"x">>), Header(<<"1">>), Header(<<"1">>)),
           RateHeaders(Header(<<"3">>), Header(<<"x">>), Header(<<"1">>)),
           RateHeaders(Header(<<"3">>), Header(<<"1">>), Header(<<"x">>)),
           NoHeaders }

\* one tick of the clock: the window ages, sleepers get closer to waking
Tick ==
    /\ window_age' = IF window_age = Unset THEN Unset
                     ELSE MinOf(window_age + 1, API_RATE_LIMIT_WAIT + 1)
    /\ sleep_left' = [t \in Threads |-> MaxOf(0, sleep_left[t] - 1)]
    /\ <<window_age', sleep_left'>> # <<window_age, sleep_left>>
    /\ UNCHANGED <<matchVars, loaded, resolveVars, rate_limit_total, rate_limit_used,
                   rate_limit_remaining, lastCall, sent_in_window, threadVars>>

\* enforce_api_limit up to its return, or up to time.sleep(wait_time)
TryAcquire(t) ==
    /\ pc[t] = "idle"
    /\ IF NewWindow(CurrentRate)
       THEN /\ SetRate(ResetWindow(CurrentRate))
            /\ lastCall' = [NoCall EXCEPT !.op = "tryAcquire",
                                          !.allowed = rate_limit_total > 0]
            /\ UNCHANGED <<pc, sleep_left>>
       ELSE IF rate_limit_remaining <= 0
       THEN /\ pc' = [pc EXCEPT ![t] = "sleep"]
            /\ sleep_left' = [sleep_left EXCEPT ![t] = WaitTime(CurrentRate)]
            /\ UNCHANGED <<rateVars, lastCall>>
       ELSE /\ lastCall' = [NoCall EXCEPT !.op = "tryAcquire",
                                          !.allowed = rate_limit_remaining > 0]
            /\ UNCHANGED <<rateVars, pc, sleep_left>>
    /\ UNCHANGED <<matchVars, loaded, resolveVars, sent_in_window, reqs, ret>>

\* enforce_api_limit from the end of time.sleep(wait_time) to its return
Wake(t) ==
    /\ pc[t] = "sleep"
    /\ sleep_left[t] = 0
    /\ SetRate(ResetWindow(CurrentRate))
    /\ pc' = [pc EXCEPT ![t] = "idle"]
    /\ lastCall' = [NoCall EXCEPT !.op = "tryAcquire",
                                  !.allowed = rate_limit_total > 0]
    /\ UNCHANGED <<matchVars, loaded, resolveVars, sleep_left, sent_in_window, reqs, ret>>

\* update_rate_limits_from_headers(h, progress_callback=cb)
Observe(t, h, cb) ==
    /\ pc[t] = "idle"
    /\ rate_limit_used < MaxUsed
    /\ LET res == update_rate_limits_from_headers(CurrentRate, h, cb)
       IN  /\ SetRate(res.rate)
           /\ lastCall' = [NoCall EXCEPT !.op = "observe", !.headers = h,
                                         !.callback = cb, !.raised = res.raised]
    /\ UNCHANGED <<matchVars, loaded, resolveVars, sleep_left, sent_in_window, threadVars>>

\* update_api_progress() called directly by the user interface
UpdateApiProgress ==
    /\ update_api_progress(CurrentRate) # CurrentRate
    /\ SetRate(update_api_progress(CurrentRate))
    /\ lastCall' = [NoCall EXCEPT !.op = "progress"]
    /\ UNCHANGED <<matchVars, loaded, resolveVars, sleep_left, sent_in_window, threadVars>>

\* no string is being normalized
NormalizerIdle == nCatno = << >> /\ nNormalized = << >>

MatcherIdle ==
    /\ mArtist = << >> /\ mAlbum = << >> /\ mReleases = << >>
    /\ mResult = [release |-> NoRelease, catalog |-> << >>]
    /\ mDone = TRUE
    /\ NormalizerIdle

InitLimiter ==
    /\ LimiterIdle
    /\ ThreadsIdle
    /\ MatcherIdle
    /\ ResolveIdle

NextLimiter ==
    \/ Tick
    \/ \E t \in Threads : TryAcquire(t)
    \/ \E t \in Threads : Wake(t)
    \/ \E t \in Threads, h \in HeaderSets, cb \in BOOLEAN : Observe(t, h, cb)
    \/ UpdateApiProgress

SpecLimiter == InitLimiter /\ [][NextLimiter]_vars

(***************************************************************************)
(* C10                                                                     *)
(***************************************************************************)
AllReported(h) ==
    /\ h.mapping
    /\ h.total.present /\ h.used.present /\ h.remaining.present
    /\ ParseInt(h.total.text).ok /\ ParseInt(h.used.text).ok
    /\ ParseInt(h.remaining.text).ok

\* C10: after an observe call whose headers carry the three reported values
\* (T, U, R), total = T, used = U and remaining = R exactly; remaining is the
\* header's value, not total - used.
C10_ObserveExact ==
    (lastCall.op = "observe" /\ AllReported(lastCall.headers)) =>
        /\ ~lastCall.raised
        /\ rate_limit_total = ParseInt(lastCall.headers.total.text).val
        /\ rate_limit_used = ParseInt(lastCall.headers.used.text).val
        /\ rate_limit_remaining = ParseInt(lastCall.headers.remaining.text).val

\* headers 3/1/1: remaining is 1 although total - used is 2
C10_Witness ==
    /\ lastCall.op = "observe"
    /\ lastCall.headers = RateHeaders(Header(<<"3">>), Header(<<"1">>), Header(<<"1">>))
    /\ rate_limit_total = 3 /\ rate_limit_used = 1 /\ rate_limit_remaining = 1
    /\ rate_limit_remaining # rate_limit_total - rate_limit_used

(***************************************************************************)
(* C11                                                                     *)
(***************************************************************************)
\* a rate-limit header that is present and is not a number
NonNumeric(x) == x.present /\ ~ParseInt(x.text).ok

\* headers that are no mapping, that lack the rate-limit headers, or that
\* carry a non-numeric rate-limit value
AbsentOrMalformed(h) ==
    \/ ~h.mapping
    \/ ~h.total.present
    \/ NonNumeric(h.total) \/ NonNumeric(h.used) \/ NonNumeric(h.remaining)

\* C11: an observe call whose headers are absent or malformed raises no
\* error, and afterwards used is one greater than before and remaining is
\* max(0, remaining - 1), in every state and with or without a progress
\* callback.
C11_FallbackAlways ==
    [][\A t \in Threads, h \in HeaderSets, cb \in BOOLEAN :
           (Observe(t, h, cb) /\ AbsentOrMalformed(h)) =>
               /\ ~lastCall'.raised
               /\ rate_limit_used' = rate_limit_used + 1
               /\ rate_limit_remaining' = MaxOf(0, rate_limit_remaining - 1)]_vars

(***************************************************************************)
(* main.py: make_api_request with its enforce_api_limit and                *)
(* update_api_progress, called by the processing threads that              *)
(* start_processing creates.                                               *)
(***************************************************************************)
\* a call of make_api_request is not followed beyond this many requests
MaxRequests == 4
\* requests are not counted beyond this within one window
MaxSent == 4
\* max_retries of api_client.make_api_request
MaxRetries == 3

\* main.py update_api_progress: only rate_limit_remaining is reset
main_update_api_progress(r) ==
    IF WindowOver(r) THEN [r EXCEPT !.remaining = r.total] ELSE r

\* main.py make_api_request: "Update rate limit info from headers", the
\* three int(response.headers.get(...)) assignments in order
main_header_update(r, h) ==
    LET total == IF h.total.present THEN ParseInt(h.total.text) ELSE Parsed(r.total)
        used  == IF h.used.present THEN ParseInt(h.used.text) ELSE Parsed(r.used + 1)
        remaining == IF h.remaining.present THEN ParseInt(h.remaining.text)
                     ELSE Parsed(total.val - used.val)
    IN  IF ~total.ok THEN [rate |-> r, raised |-> TRUE]
        ELSE IF ~used.ok THEN [rate |-> [r EXCEPT !.total = total.val], raised |-> TRUE]
        ELSE IF ~remaining.ok
             THEN [rate |-> [r EXCEPT !.total = total.val, !.used = used.val],
                   raised |-> TRUE]
        ELSE [rate |-> main_update_api_progress(
                           Rate(total.val, used.val, remaining.val, StartIfUnset(r.age))),
              raised |-> FALSE]

\* where a thread goes when enforce_api_limit returns: to requests.get, or,
\* after a 429, into the recursive make_api_request
AfterEnforce(label) == IF label \in {"enforce", "sleep"} THEN "get" ELSE "enforce"

\* process_files -> fetch_metadata -> make_api_request(url, params)
MainCall(t) ==
    /\ pc[t] = "idle"
    /\ pc' = [pc EXCEPT ![t] = "enforce"]
    /\ reqs' = [reqs EXCEPT ![t] = 0]
    /\ ret' = [ret EXCEPT ![t] = "none"]
    /\ UNCHANGED <<matchVars, loaded, resolveVars, limVars>>

\* main.py enforce_api_limit up to its return or to time.sleep(wait_time)
MainEnforce(t) ==
    /\ pc[t] \in {"enforce", "enforce429"}
    /\ IF NewWindow(CurrentRate)
       THEN /\ SetRate(main_update_api_progress(ResetWindow(CurrentRate)))
            /\ sent_in_window' = 0
            /\ pc' = [pc EXCEPT ![t] = AfterEnforce(pc[t])]
            /\ UNCHANGED sleep_left
       ELSE IF rate_limit_remaining <= 0
       THEN /\ pc' = [pc EXCEPT ![t] = IF pc[t] = "enforce" THEN "sleep" ELSE "sleep429"]
            /\ sleep_left' = [sleep_left EXCEPT ![t] = WaitTime(CurrentRate)]
            /\ UNCHANGED <<rateVars, sent_in_window>>
       ELSE /\ SetRate(main_update_api_progress(CurrentRate))
            /\ pc' = [pc EXCEPT ![t] = AfterEnforce(pc[t])]
            /\ UNCHANGED <<sleep_left, sent_in_window>>
    /\ UNCHANGED <<matchVars, loaded, resolveVars, lastCall, reqs, ret>>

\* main.py enforce_api_limit from the end of time.sleep to its return
MainWake(t) ==
    /\ pc[t] \in {"sleep", "sleep429"}
    /\ sleep_left[t] = 0
    /\ SetRate(main_update_api_progress(ResetWindow(CurrentRate)))
    /\ sent_in_window' = 0
    /\ pc' = [pc EXCEPT ![t] = AfterEnforce(pc[t])]
    /\ UNCHANGED <<matchVars, loaded, resolveVars, sleep_left, lastCall, reqs, ret>>

\* requests.get(url, params=params, timeout=10): the request leaves
MainSend(t) ==
    /\ pc[t] = "get"
    /\ reqs[t] < MaxRequests
    /\ sent_in_window < MaxSent
    /\ pc' = [pc EXCEPT ![t] = "wait"]
    /\ reqs' = [reqs EXCEPT ![t] = @ + 1]
    /\ sent_in_window' = sent_in_window + 1
    /\ UNCHANGED <<matchVars, loaded, resolveVars, rateVars, sleep_left, lastCall, ret>>

\* requests.get raises Timeout or another RequestException: return None
MainFail(t) ==
    /\ pc[t] = "wait"
    /\ pc' = [pc EXCEPT ![t] = "idle"]
    /\ ret' = [ret EXCEPT ![t] = "None"]
    /\ UNCHANGED <<matchVars, loaded, resolveVars, limVars, reqs>>

\* requests.get returns a response with this status and these headers
MainRespond(t, status, h) ==
    /\ pc[t] = "wait"
    /\ LET res == main_header_update(CurrentRate, h)
       IN  IF res.raised
           THEN /\ SetRate(res.rate)
                /\ pc' = [pc EXCEPT ![t] = "idle"]
                /\ ret' = [ret EXCEPT ![t] = "raised"]
           ELSE IF status = 200
           THEN /\ SetRate(res.rate)
                /\ pc' = [pc EXCEPT ![t] = "idle"]
                /\ ret' = [ret EXCEPT ![t] = "body"]
           ELSE IF status = 429
           THEN /\ SetRate([res.rate EXCEPT !.remaining = 0])
                /\ pc' = [pc EXCEPT ![t] = "enforce429"]
                /\ UNCHANGED ret
           ELSE /\ SetRate(res.rate)
                /\ pc' = [pc EXCEPT ![t] = "idle"]
                /\ ret' = [ret EXCEPT ![t] = "None"]
    /\ UNCHANGED <<matchVars, loaded, resolveVars, sleep_left, lastCall, sent_in_window, reqs>>

Statuses == {200, 429, 500}

\* response.headers is always a mapping: no rate-limit headers, reported
\* numbers, an exhausted budget, a header missing, a non-numeric value
MainHeaderSets ==
    { RateHeaders(Absent, Absent, Absent),
      RateHeaders(Header(<<"3">>), Header(<<"1">>), Header(<<"1">>)),
      RateHeaders(Header(<<"0">>), Header(<<"0">>), Header(<<"0">>)),
      RateHeaders(Header(<<"3">>), Absent, Absent),
      RateHeaders(Header(<<"x">>), Header(<<"1">>), Header(<<"1">>)),
      RateHeaders(Header(<<"3">>), Header(<<"1">>), Header(<<"x">>)) }

InitMain ==
    /\ LimiterIdle
    /\ ThreadsIdle
    /\ MatcherIdle
    /\ ResolveIdle

NextMain ==
    \/ Tick
    \/ \E t \in Threads : MainCall(t)
    \/ \E t \in Threads : MainEnforce(t)
    \/ \E t \in Threads : MainWake(t)
    \/ \E t \in Threads : MainSend(t)
    \/ \E t \in Threads : MainFail(t)
    \/ \E t \in Threads, st \in Statuses, h \in MainHeaderSets : MainRespond(t, st, h)

SpecMain == InitMain /\ [][NextMain]_vars

\* the same program with a server that sends no rate-limit headers
NextMainNoHeaders ==
    \/ Tick
    \/ \E t \in Threads : MainCall(t)
    \/ \E t \in Threads : MainEnforce(t)
    \/ \E t \in Threads : MainWake(t)
    \/ \E t \in Threads : MainSend(t)
    \/ \E t \in Threads : MainFail(t)
    \/ \E t \in Threads, st \in Statuses :
           MainRespond(t, st, RateHeaders(Absent, Absent, Absent))

SpecMainNoHeaders == InitMain /\ [][NextMainNoHeaders]_vars

(***************************************************************************)
(* C3                                                                      *)
(***************************************************************************)
\* C3: between two consecutive window resets at most total requests are
\* allowed through, for every interleaving of the callers.
C3_WindowBudget == sent_in_window <= rate_limit_total

(***************************************************************************)
(* C7                                                                      *)
(***************************************************************************)
\* C7: one execute call sends at most maxRetries requests, whatever the
\* server answers.
C7_BoundedRequests == \A t \in Threads : reqs[t] <= MaxRetries

(***************************************************************************)
(* The matcher on bounded inputs                                           *)
(***************************************************************************)
\* longest result list handed to the matcher
MaxReleases == 2

sArtist == <<"A", "b">>
sAlbum  == <<"C", "e">>

Release(title, catno, year) ==
    [title |-> title, catno |-> catno, year |-> year, nonempty |-> TRUE]

\* "Ab - Ce", "ab - cex" (fuzzy album), "X - Ce" (other artist), "Ce"
Titles ==
    { sArtist \o Separator \o sAlbum,
      <<"a", "b">> \o Separator \o <<"c", "e", "x">>,
      <<"X">> \o Separator \o sAlbum,
      sAlbum }

\* "", "NONE", "K1", "k 1", "L2"
Catnos == { << >>, NONE, <<"K", "1">>, <<"k", " ", "1">>, <<"L", "2">> }

Years == {0, 1985, 1999}

ReleasePool ==
    {Release(t, c, y) : t \in Titles, c \in Catnos, y \in Years} \cup {NoRelease}

ReleaseLists == UNION {[1..n -> ReleasePool] : n \in 1..MaxReleases}

NoSelection == Selection(NoRelease, << >>)

InitMatch ==
    /\ LimiterIdle
    /\ ThreadsIdle
    /\ ResolveIdle
    /\ mArtist = sArtist
    /\ mAlbum = sAlbum
    /\ mReleases \in ReleaseLists
    /\ mResult = NoSelection
    /\ mDone = FALSE
    /\ NormalizerIdle

\* fetch_metadata from the result list to the selected release
Match ==
    /\ ~mDone
    /\ mResult' = CandidateMatcher(mReleases, mArtist, mAlbum)
    /\ mDone' = TRUE
    /\ UNCHANGED <<mArtist, mAlbum, mReleases, nCatno, nNormalized, loaded, limVars,
                   threadVars, resolveVars>>

NextMatch == Match

SpecMatch == InitMatch /\ [][NextMatch]_vars

(***************************************************************************)
(* C4                                                                      *)
(***************************************************************************)
SeqToSet(s) == {s[i] : i \in 1..Len(s)}

mExact == ExactAlbumTitleMatches(mReleases, Strip(mArtist), Strip(mAlbum))

\* the exact-title matches hold an older year-bearing "NONE" record and a
\* newer record with a usable catalog number
OlderNoneNewerUsable ==
    \E old \in SeqToSet(mExact), new \in SeqToSet(mExact) :
        /\ Upper(Strip(old.catno)) = NONE
        /\ old.year > 0
        /\ UsableCatno(new)
        /\ new.year > old.year

\* the year-bearing exact-title matches
mExactWithYear == {r \in SeqToSet(mExact) : r.year > 0}

\* C4 as stated: with an older year-bearing "NONE" record and a newer usable
\* record among the exact-title matches, the matcher selects the oldest
\* exact-title record and the accepted catalog is the placeholder "NONE".
C4_OldestNonePlaceholder ==
    (mDone /\ OlderNoneNewerUsable) =>
        /\ mResult.catalog = NONE
        /\ mResult.release \in mExactWithYear
        /\ \A r \in mExactWithYear : mResult.release.year <= r.year

\* the year-bearing exact-title matches with a usable catalog number, and
\* those of them whose artist re-verifies
mUsableWithYear == {r \in mExactWithYear : UsableCatno(r)}
mUsableVerified ==
    {r \in mUsableWithYear : ReVerified(r, mReleases, Strip(mArtist), Strip(mAlbum))}

\* C4 amended: in that case the matcher first narrows the exact-title matches
\* to those with a usable catalog number; the selected record is the oldest
\* year-bearing one of these (the oldest whose artist re-verifies when one
\* does), never the "NONE" record, and the accepted catalog is the selected
\* record's own normalized catalog number.
C4_NarrowedToUsable ==
    (mDone /\ OlderNoneNewerUsable) =>
        LET base == IF mUsableVerified # {} THEN mUsableVerified ELSE mUsableWithYear
        IN  /\ mResult.release \in base
            /\ \A r \in base : mResult.release.year <= r.year
            /\ UsableCatno(mResult.release)
            /\ mResult.catalog = NormalizeCatalog(Strip(mResult.release.catno))

\* the example of the claim: {"Ab - Ce", "K1", 1999}, {"Ab - Ce", "NONE", 1985}
C4_Example ==
    << Release(sArtist \o Separator \o sAlbum, <<"K", "1">>, 1999),
       Release(sArtist \o Separator \o sAlbum, NONE, 1985) >>

C4_Witness ==
    /\ mDone
    /\ mReleases = C4_Example
    /\ OlderNoneNewerUsable
    /\ mResult.catalog = <<"K", "1">>
    /\ mResult.release.year = 1999

(***************************************************************************)
(* utils/metadata.py fetch_metadata with api_client.make_api_request,      *)
(* called by several threads.  The lock, the two caches, the three queries *)
(* and the retry loop are followed step by step; a thread at "wait" has a  *)
(* request on the network, one at "retry_sleep" or "sleep429" is inside    *)
(* time.sleep, one at "executed" has make_api_request's result in hand.    *)
(***************************************************************************)
\* responses other than 200 and failed connections the server produces
MaxFaults == 3

\* f"{artist.lower()}|{album.lower()}" of the stripped arguments
CacheKey(a) == Lower(Strip(a.artist)) \o <<"|">> \o Lower(Strip(a.album))

Args(artist, album, title) == [artist |-> artist, album |-> album, title |-> title]

\* ("Ab", "Ce") without a title, ("Ab", " ce") with the same key and the
\* title "X", and an empty album
ResolveArgs ==
    { Args(sArtist, sAlbum, << >>),
      Args(sArtist, <<" ", "c", "e">>, <<"X">>),
      Args(sArtist, << >>, << >>) }

\* the stripped and lowered artist and album of a call
NormalForm(a) == <<Lower(Strip(a.artist)), Lower(Strip(a.album))>>

\* calls for one album written in two ways, for another album of the same
\* artist, and for names that hold the "|" of the key
KeyArgs ==
    { Args(sArtist, sAlbum, << >>),
      Args(<<" ", "a", "B">>, <<"C", "E", " ">>, << >>),
      Args(sArtist, <<"C", "x">>, << >>),
      Args(<<"a", "|", "b">>, <<"c">>, << >>),
      Args(<<"a">>, <<"b", "|", "c">>, << >>) }

AllArgs == ResolveArgs \cup KeyArgs

\* the cache key of each argument triple
cache_key == [a \in AllArgs |-> CacheKey(a)]

\* response.json() as make_api_request hands it back
Body(results) == [truthy |-> TRUE, dict |-> TRUE, results |-> results]
NotADict == [truthy |-> TRUE, dict |-> FALSE, results |-> << >>]

\* result lists of the server: none, "K1" of 1999, and a record without
\* any field
ResultLists ==
    { << >>,
      << Release(sArtist \o Separator \o sAlbum, <<"K", "1">>, 1999) >>,
      << NoRelease >> }

Bodies == {Body(r) : r \in ResultLists} \cup {NotADict}

\* the Retry-After header of a 429: absent, "1" or "x"
RetryAfterValues == {Absent, Header(<<"1">>), Header(<<"x">>)}

\* the matcher's selection for each argument triple and result list
Selected ==
    [a \in AllArgs, r \in ResultLists \ {<< >>} |->
        CandidateMatcher(r, a.artist, a.album)]

\* not response_data or not response_data.get("results")
NoResults(data) == ~data.truthy \/ data.results = << >>

\* the metadata dictionary built from the selected release
Metadata(sel) ==
    [catalog_number |-> sel.catalog, year |-> sel.release.year,
     album |-> sel.release.title]

InCache(key) == key \in DOMAIN album_catalog_cache

\* album_catalog_cache[cache_key] = metadata
CachePut(cache, key, m) ==
    [k \in DOMAIN cache \cup {key} |-> IF k = key THEN m ELSE cache[k]]

\* the test without its "title and": a missing title differs from any album
TitleDiffers_NoTitleTest(a) == Lower(Strip(a.title)) # Lower(Strip(a.album))

\* title and title.lower() != album.lower()
TitleDiffers(a) ==
    Strip(a.title) # << >> /\ Lower(Strip(a.title)) # Lower(Strip(a.album))

\* fetch_metadata returns (metadata, headers) or (None, None)
Return(t, kind, m) ==
    /\ pc' = [pc EXCEPT ![t] = "idle"]
    /\ ret' = [ret EXCEPT ![t] = kind]
    /\ meta' = [meta EXCEPT ![t] = m]
    /\ frame' = [frame EXCEPT ![t] = IdleFrame]
    /\ returned' = returned \cup {cache_key[frame[t].args]}

\* an exception leaves fetch_metadata
Raise(t) ==
    /\ pc' = [pc EXCEPT ![t] = "idle"]
    /\ ret' = [ret EXCEPT ![t] = "raised"]
    /\ frame' = [frame EXCEPT ![t] = IdleFrame]
    /\ UNCHANGED <<meta, returned>>

\* fetch_metadata goes on at label with the locals f
Goto(t, label, f) ==
    /\ pc' = [pc EXCEPT ![t] = label]
    /\ frame' = [frame EXCEPT ![t] = f]
    /\ UNCHANGED <<ret, returned>>

\* a cache write under the key of the running call (history)
Wrote(t) ==
    writers' = writers \cup {<<cache_key[frame[t].args], NormalForm(frame[t].args)>>}

\* response_headers = h
SetHeaders(t, h) == response_headers' = [response_headers EXCEPT ![t] = h]

\* make_api_request returns data, and fetch_metadata keeps the headers it
\* already holds from an earlier query
ExecuteReturn_KeepHeaders(t, data) ==
    /\ Goto(t, "executed", [frame[t] EXCEPT !.attempts = 0, !.execReqs = 0,
                                            !.httpErr = FALSE,
                                            !.response_data = data])
    /\ SetHeaders(t, IF response_headers[t] # 0 THEN response_headers[t]
                     ELSE IF data.truthy THEN reqs[t] ELSE 0)
    /\ UNCHANGED meta

\* make_api_request returns data to fetch_metadata, with response.headers of
\* the request it has just sent when there is a body and with None otherwise
ExecuteReturn(t, data) ==
    /\ Goto(t, "executed", [frame[t] EXCEPT !.attempts = 0, !.execReqs = 0,
                                            !.httpErr = FALSE,
                                            !.response_data = data])
    /\ SetHeaders(t, IF data.truthy THEN reqs[t] ELSE 0)
    /\ UNCHANGED meta

\* fetch_metadata from the matcher's selection sel to the lock of the
\* positive cache write, or to its return when nothing is selected
Matched(t, f, sel) ==
    IF sel = NoSelection
    THEN Return(t, "None", NoMeta) /\ SetHeaders(t, 0)
    ELSE /\ Goto(t, "lock_pos", f)
         /\ meta' = [meta EXCEPT ![t] = Metadata(sel)]
         /\ UNCHANGED response_headers

\* fetch_metadata from the return of make_api_request to its next call, to
\* the lock of a cache write, or to its own return
AfterExecute(t) ==
    /\ pc[t] = "executed"
    /\ LET data == frame[t].response_data
           f == [frame[t] EXCEPT !.genuine = @ /\ data.truthy,
                                 !.failed = @ /\ ~data.truthy,
                                 !.response_data = NoData]
       IN  IF data.truthy /\ ~data.dict
           THEN Raise(t) /\ UNCHANGED response_headers
           ELSE IF NoResults(data)
           THEN /\ IF f.query = 1 \/ (f.query = 2 /\ TitleDiffers(f.args))
                   THEN Goto(t, "send", [f EXCEPT !.query = @ + 1])
                   ELSE Goto(t, "lock_neg", f)
                /\ UNCHANGED <<meta, response_headers>>
           ELSE Matched(t, f, Selected[f.args, data.results])
    /\ UNCHANGED <<matchVars, loaded, limVars, reqs, cacheVars, zeroDone, writers, after, afterZero,
                   faults>>

\* fetch_metadata without its "if not album": every call goes on to the lock
ResolveCall_NoAlbumTest(t, a) ==
    /\ pc[t] = "idle"
    /\ reqs' = [reqs EXCEPT ![t] = 0]
    /\ meta' = [meta EXCEPT ![t] = NoMeta]
    /\ SetHeaders(t, 0)
    /\ ret' = [ret EXCEPT ![t] = "none"]
    /\ after' = [after EXCEPT ![t] = cache_key[a] \in returned]
    /\ afterZero' = [afterZero EXCEPT ![t] = cache_key[a] \in zeroDone]
    /\ pc' = [pc EXCEPT ![t] = "lock_check"]
    /\ frame' = [frame EXCEPT ![t] = [IdleFrame EXCEPT !.args = a]]
    /\ UNCHANGED <<matchVars, loaded, limVars, cacheVars, returned, zeroDone, writers, faults>>

\* fetch_metadata(artist, album, title) up to "with cache_lock:"
ResolveCall(t, a) ==
    /\ pc[t] = "idle"
    /\ reqs' = [reqs EXCEPT ![t] = 0]
    /\ meta' = [meta EXCEPT ![t] = NoMeta]
    /\ SetHeaders(t, 0)
    /\ IF a.album = << >>
       THEN /\ ret' = [ret EXCEPT ![t] = "None"]
            /\ after' = [after EXCEPT ![t] = FALSE]
            /\ afterZero' = [afterZero EXCEPT ![t] = FALSE]
            /\ UNCHANGED <<pc, frame>>
       ELSE /\ ret' = [ret EXCEPT ![t] = "none"]
            /\ after' = [after EXCEPT ![t] = cache_key[a] \in returned]
            /\ afterZero' = [afterZero EXCEPT ![t] = cache_key[a] \in zeroDone]
            /\ pc' = [pc EXCEPT ![t] = "lock_check"]
            /\ frame' = [frame EXCEPT ![t] = [IdleFrame EXCEPT !.args = a]]
    /\ UNCHANGED <<matchVars, loaded, limVars, cacheVars, returned, zeroDone, writers, faults>>

\* a thread leaves "with cache_lock:" holding on to the lock
ReleaseCacheLock_Never == UNCHANGED cache_lock

\* a thread leaves "with cache_lock:"
ReleaseCacheLock == cache_lock' = Free

\* "with cache_lock:" is entered
AcquireCacheLock(t) ==
    /\ pc[t] \in {"lock_check", "lock_neg", "lock_pos"}
    /\ cache_lock = Free
    /\ cache_lock' = t
    /\ pc' = [pc EXCEPT ![t] = CASE pc[t] = "lock_check" -> "check"
                                 [] pc[t] = "lock_neg" -> "neg_write"
                                 [] pc[t] = "lock_pos" -> "pos_write"]
    /\ UNCHANGED <<matchVars, loaded, limVars, reqs, ret, frame, meta, response_headers,
                   album_catalog_cache, failed_search_cache, histVars, faults>>

\* the body of the first "with cache_lock:" and the way out of it
CacheCheck(t) ==
    /\ pc[t] = "check"
    /\ LET key == cache_key[frame[t].args]
       IN  IF InCache(key)
           THEN Return(t, "metadata", album_catalog_cache[key])
           ELSE IF key \in failed_search_cache
           THEN Return(t, "None", NoMeta)
           ELSE Goto(t, "send", [frame[t] EXCEPT !.query = 1]) /\ UNCHANGED meta
    /\ SetHeaders(t, 0)
    /\ ReleaseCacheLock
    /\ UNCHANGED <<matchVars, loaded, limVars, reqs, album_catalog_cache,
                   failed_search_cache, zeroDone, writers, after, afterZero, faults>>

\* make_api_request: requests.get(url, params=params, timeout=10) leaves
Send(t) ==
    /\ pc[t] = "send"
    /\ pc' = [pc EXCEPT ![t] = "wait"]
    /\ reqs' = [reqs EXCEPT ![t] = @ + 1]
    /\ frame' = [frame EXCEPT ![t].execReqs = @ + 1]
    /\ UNCHANGED <<matchVars, loaded, limVars, ret, meta, response_headers, cacheVars,
                   histVars, faults>>

\* make_api_request: a RequestException is caught.  http says whether
\* response.raise_for_status() raised it for a 4xx/5xx status other than 429
\* or requests.get raised it for a timeout or a failed connection
ExecFailWithin(t, http, limit) ==
    /\ pc[t] = "wait"
    /\ faults < limit
    /\ faults' = faults + 1
    /\ IF frame[t].attempts + 1 < MaxRetries
       THEN /\ Goto(t, "retry_sleep",
                    [frame[t] EXCEPT !.attempts = @ + 1, !.httpErr = @ \/ http])
            /\ UNCHANGED <<meta, response_headers>>
       ELSE ExecuteReturn(t, NoData)
    /\ UNCHANGED <<matchVars, loaded, limVars, reqs, cacheVars, zeroDone, writers, after, afterZero>>

\* the same, the server failing MaxFaults times at most
ExecFail(t, http) == ExecFailWithin(t, http, MaxFaults)

\* make_api_request: status 429, int(response.headers.get('Retry-After',
\* retry_delay)), then time.sleep(retry_after)
Exec429(t, retry_after) ==
    /\ pc[t] = "wait"
    /\ faults < MaxFaults
    /\ faults' = faults + 1
    /\ IF retry_after.present /\ ~ParseInt(retry_after.text).ok
       THEN Raise(t)
       ELSE Goto(t, "sleep429", frame[t]) /\ UNCHANGED meta
    /\ UNCHANGED response_headers
    /\ UNCHANGED <<matchVars, loaded, limVars, reqs, cacheVars, zeroDone, writers, after, afterZero>>

\* make_api_request: return response.json(), response.headers
ExecOk(t, body) ==
    /\ pc[t] = "wait"
    /\ ExecuteReturn(t, body)
    /\ UNCHANGED <<matchVars, loaded, limVars, reqs, cacheVars, zeroDone, writers, after, afterZero,
                   faults>>

\* make_api_request: time.sleep(retry_delay) ends, the loop goes on
RetryWake(t) ==
    /\ pc[t] = "retry_sleep"
    /\ pc' = [pc EXCEPT ![t] = "send"]
    /\ UNCHANGED <<matchVars, loaded, limVars, reqs, ret, frame, meta, response_headers,
                   cacheVars, histVars, faults>>

\* make_api_request: time.sleep(retry_after) ends, attempts += 1, continue
Wake429(t) ==
    /\ pc[t] = "sleep429"
    /\ IF frame[t].attempts + 1 < MaxRetries
       THEN /\ Goto(t, "send", [frame[t] EXCEPT !.attempts = @ + 1])
            /\ UNCHANGED <<meta, response_headers>>
       ELSE ExecuteReturn(t, NoData)
    /\ UNCHANGED <<matchVars, loaded, limVars, reqs, cacheVars, zeroDone, writers, after, afterZero,
                   faults>>

\* "with cache_lock: failed_search_cache.add(cache_key)", return None, None
NegWrite(t) ==
    /\ pc[t] = "neg_write"
    /\ failed_search_cache' = failed_search_cache \cup {cache_key[frame[t].args]}
    /\ ReleaseCacheLock
    /\ zeroDone' = IF frame[t].genuine THEN zeroDone \cup {cache_key[frame[t].args]}
                   ELSE zeroDone
    /\ Wrote(t)
    /\ Return(t, "None", NoMeta)
    /\ SetHeaders(t, 0)
    /\ UNCHANGED <<matchVars, loaded, limVars, reqs, album_catalog_cache, after, afterZero,
                   faults>>

\* "with cache_lock: album_catalog_cache[cache_key] = metadata", return it
PosWrite(t) ==
    /\ pc[t] = "pos_write"
    /\ album_catalog_cache' =
           CachePut(album_catalog_cache, cache_key[frame[t].args], meta[t])
    /\ ReleaseCacheLock
    /\ Wrote(t)
    /\ Return(t, "metadata", meta[t])
    /\ UNCHANGED <<matchVars, loaded, limVars, reqs, response_headers, failed_search_cache,
                   zeroDone, after, afterZero, faults>>

InitResolve ==
    /\ LimiterIdle
    /\ ThreadsIdle
    /\ MatcherIdle
    /\ ResolveIdle

NextResolve ==
    \/ \E t \in Threads, a \in ResolveArgs : ResolveCall(t, a)
    \/ \E t \in Threads : AcquireCacheLock(t)
    \/ \E t \in Threads : CacheCheck(t)
    \/ \E t \in Threads : Send(t)
    \/ \E t \in Threads, http \in BOOLEAN : ExecFail(t, http)
    \/ \E t \in Threads, ra \in RetryAfterValues : Exec429(t, ra)
    \/ \E t \in Threads, b \in Bodies : ExecOk(t, b)
    \/ \E t \in Threads : AfterExecute(t)
    \/ \E t \in Threads : RetryWake(t)
    \/ \E t \in Threads : Wake429(t)
    \/ \E t \in Threads : NegWrite(t)
    \/ \E t \in Threads : PosWrite(t)

SpecResolve == InitResolve /\ [][NextResolve]_vars

(***************************************************************************)
(* C1                                                                      *)
(***************************************************************************)
\* C1: of two consecutive resolve calls with the same normalized key, the
\* second is a cache hit that issues no network request, whether the first
\* ended in metadata or in none.
C1_SecondCallIssuesNone == \A t \in Threads : after[t] => reqs[t] = 0

(***************************************************************************)
(* C2                                                                      *)
(***************************************************************************)
\* C2: when all queries of a resolve call return zero results, the key is
\* recorded in the negative cache, and every later resolve call with that
\* key returns none without issuing any network request.
C2_ZeroResultsStayNone ==
    /\ zeroDone \subseteq failed_search_cache
    /\ \A t \in Threads : afterZero[t] => (reqs[t] = 0 /\ ret[t] # "metadata")

(***************************************************************************)
(* C5                                                                      *)
(***************************************************************************)
\* C5: in every reachable state a key is in at most one of the positive
\* cache and the negative cache.
C5_CachesDisjoint == failed_search_cache \cap DOMAIN album_catalog_cache = {}

(***************************************************************************)
(* C6                                                                      *)
(***************************************************************************)
\* where a thread reads or writes the caches
LockSections == {"check", "neg_write", "pos_write"}

\* where a thread has a request on the network or sleeps before a retry
Suspended == {"wait", "retry_sleep", "sleep429"}

\* C6: a thread that reads or writes a cache holds the cache lock, and the
\* lock is held by no thread that is anywhere else, in particular by none
\* inside a network request or a retry sleep.
C6_LockOnlyAroundCaches ==
    /\ \A t \in Threads : pc[t] \in LockSections => cache_lock = t
    /\ \A t \in Threads : cache_lock = t => pc[t] \in LockSections

\* one thread looks the caches up while the other has a request out
C6_Witness ==
    /\ pc["t1"] \in Suspended
    /\ pc["t2"] = "check"
    /\ cache_lock = "t2"

(***************************************************************************)
(* C8                                                                      *)
(***************************************************************************)
\* C8: no error leaves execute or resolve as an exception, whatever the
\* server answers.
C8_NoException == \A t \in Threads : ret[t] # "raised"

(***************************************************************************)
(* C9                                                                      *)
(***************************************************************************)
\* C9: after a response with a 4xx/5xx status other than 429, execute sends
\* no further request and performs no retry sleep for that call.
C9_NoRetryAfterHttpError ==
    \A t \in Threads : frame[t].httpErr => pc[t] \notin {"retry_sleep", "send", "wait"}

(***************************************************************************)
(* C12                                                                     *)
(***************************************************************************)
\* the step in which make_api_request receives a success (a body) or a 429
\* whose Retry-After it can read
ReceivesResponse(t) ==
    /\ pc[t] = "wait"
    /\ \/ pc'[t] = "sleep429"
       \/ pc'[t] = "executed" /\ frame'[t].response_data.truthy

\* C12: for every response that execute receives (a success or a 429), the
\* rate limiter's observe is called with that response's headers exactly
\* once: the step that receives the response is an observe call.
C12_ResponseObserved ==
    [][\A t \in Threads :
           ReceivesResponse(t) => (lastCall'.op = "observe" /\ ~lastCall'.raised)]_vars

(***************************************************************************)
(* C13                                                                     *)
(***************************************************************************)
\* the step in which make_api_request's requests.get sends a request
SendsRequest(t) == pc[t] = "send" /\ pc'[t] = "wait"

\* C13: every request sent by execute, first attempt or retry, is preceded
\* by a tryAcquire call that completed and allowed it: when a request
\* leaves, the rate limiter's last call is an allowing tryAcquire.
C13_AcquireBeforeSend ==
    [][\A t \in Threads :
           SendsRequest(t) => (lastCall.op = "tryAcquire" /\ lastCall.allowed)]_vars

(***************************************************************************)
(* C14                                                                     *)
(***************************************************************************)
\* the step in which a fetch_metadata call that was handed a non-empty
\* result list returns
ReturnsAfterResults(t) ==
    /\ pc'[t] = "idle"
    /\ ret'[t] # "raised"
    /\ \/ pc[t] = "pos_write"
       \/ pc[t] = "executed" /\ ~NoResults(frame[t].response_data)

\* C14: a resolve call that missed both caches and received a non-empty
\* result list has its key in a cache when it returns: in the positive cache
\* with the returned metadata when the matcher selected a record, in the
\* negative cache when it returns none.
C14_ResultsEndCached ==
    [][\A t \in Threads :
           ReturnsAfterResults(t) =>
               LET key == cache_key[frame[t].args]
               IN  IF ret'[t] = "metadata"
                   THEN /\ key \in DOMAIN album_catalog_cache'
                        /\ album_catalog_cache'[key] = meta'[t]
                   ELSE key \in failed_search_cache']_vars

(***************************************************************************)
(* C15                                                                     *)
(***************************************************************************)
\* the final filtered set of the query, and its year-bearing part sorted
mFiltered == FilteredReleases(mReleases, Strip(mArtist), Strip(mAlbum))
mWithYear == ReleasesWithYear(mFiltered)

\* the placeholder rule: the record chosen by year has no usable catalog
\* number and is an exact-title match
mPlaceholder ==
    /\ mWithYear # << >>
    /\ LET oldest == OldestRelease(mWithYear, mReleases, Strip(mArtist), Strip(mAlbum))
       IN  ~UsableCatno(oldest) /\ InSeq(oldest, mExact)

\* no record of the filtered set has a usable catalog number, so that
\* neither the selection by year nor the one by frequency can yield one
mNoUsableCatalog == mFiltered # << >> /\ NonNone(mFiltered) = << >>

\* C15: when the selection by year and by frequency yields no usable catalog
\* number and the placeholder rule does not apply, the result is the first
\* non-empty, non-"NONE" catalog number of the full original list in list
\* order, and no match when the original list has none.
C15_LastResortOriginalList ==
    (mDone /\ mNoUsableCatalog /\ ~mPlaceholder) =>
        LET usable == NonNone(mReleases)
        IN  IF usable # << >>
            THEN /\ mResult.release = usable[1]
                 /\ mResult.catalog = NormalizeCatalog(Strip(usable[1].catno))
            ELSE mResult = NoSelection

(***************************************************************************)
(* C16                                                                     *)
(***************************************************************************)
\* the step in which fetch_metadata goes on to its next make_api_request
QueryIssued(t) == frame'[t].query # frame[t].query /\ frame'[t].query # 0

\* C16: a resolve call that misses both caches issues at most three queries
\* in the fixed order 1, 2, 3: query 1 only on a miss of both caches, query
\* k+1 only when query k returned no results (so none after one that
\* returned results), query 3 only when a title was given and differs from
\* the album.
C16_QueryOrder ==
    [][\A t \in Threads :
           /\ frame'[t].query \in 0..3
           /\ QueryIssued(t) =>
                  LET a == frame[t].args
                      data == frame[t].response_data
                  IN  /\ frame'[t].query = frame[t].query + 1
                      /\ frame[t].query = 0 =>
                             /\ pc[t] = "check"
                             /\ cache_key[a] \notin DOMAIN album_catalog_cache
                             /\ cache_key[a] \notin failed_search_cache
                      /\ frame[t].query > 0 =>
                             /\ pc[t] = "executed"
                             /\ ~data.truthy \/ data.results = << >>
                      /\ frame'[t].query = 3 =>
                             /\ a.title # << >>
                             /\ Lower(Strip(a.title)) # Lower(Strip(a.album))]_vars

\* the third query, artist and title, has its request on the network
C16_Witness ==
    \E t \in Threads :
        /\ frame[t].query = 3
        /\ pc[t] = "wait"
        /\ frame[t].args.title = <<"X">>

(***************************************************************************)
(* C17                                                                     *)
(***************************************************************************)
\* C17: resolve called with an empty album returns none at once: it issues
\* no request and leaves the positive cache, the negative cache and the
\* rate-limit state as they are.
C17_EmptyAlbumNoEffect ==
    [][\A t \in Threads, a \in ResolveArgs :
           (ResolveCall(t, a) /\ a.album = << >>) =>
               /\ pc'[t] = "idle"
               /\ ret'[t] = "None"
               /\ reqs'[t] = 0
               /\ album_catalog_cache' = album_catalog_cache
               /\ failed_search_cache' = failed_search_cache
               /\ rateVars' = rateVars]_vars

\* a call with an empty album has returned none while the other thread's
\* call is at work, and nothing is cached
C17_Witness ==
    /\ pc["t1"] = "idle" /\ ret["t1"] = "None" /\ reqs["t1"] = 0
    /\ returned = {}
    /\ pc["t2"] = "wait"
    /\ album_catalog_cache = << >> /\ failed_search_cache = {}

(***************************************************************************)
(* C18: the matcher on result lists without year data, where the selection *)
(* falls to select_by_frequency                                            *)
(***************************************************************************)
\* longest result list without year data
MaxFrequencyReleases == 3

\* "K1", "K 1", "L2", "NONE", "N ONE", "NO NE", ""
FrequencyCatnos ==
    { <<"K", "1">>, <<"K", " ", "1">>, <<"L", "2">>, NONE,
      <<"N", " ", "O", "N", "E">>, <<"N", "O", " ", "N", "E">>, << >> }

\* records titled "Ab - Ce" without a year
FrequencyPool == {Release(sArtist \o Separator \o sAlbum, c, 0) : c \in FrequencyCatnos}

FrequencyLists == UNION {[1..n -> FrequencyPool] : n \in 1..MaxFrequencyReleases}

InitFrequency ==
    /\ LimiterIdle
    /\ ThreadsIdle
    /\ ResolveIdle
    /\ mArtist = sArtist
    /\ mAlbum = sAlbum
    /\ mReleases \in FrequencyLists
    /\ mResult = NoSelection
    /\ mDone = FALSE
    /\ NormalizerIdle

SpecFrequency == InitFrequency /\ [][NextMatch]_vars

\* the normalized catalog number of a record
NormalizedCatno(r) == NormalizeCatalog(Strip(r.catno))

\* the usable catalog numbers of the filtered set, normalized
mUsableCatalogs ==
    LET usable == SelectSeq(mFiltered,
                      LAMBDA r : NormalizedCatno(r) # << >> /\ NormalizedCatno(r) # NONE)
    IN  [i \in 1..Len(usable) |-> NormalizedCatno(usable[i])]

\* C18: when no record of the final filtered set carries year data, the
\* returned catalog number is one whose occurrence count among the usable
\* catalog numbers of that set is maximal, and the selected record carries it
\* (K1, K1, L2 yield "K1").
C18_MostFrequentCatalog ==
    (mDone /\ mWithYear = << >> /\ mUsableCatalogs # << >>) =>
        /\ \A i \in 1..Len(mUsableCatalogs) :
               Count(mUsableCatalogs[i], mUsableCatalogs)
                   <= Count(mResult.catalog, mUsableCatalogs)
        /\ NormalizedCatno(mResult.release) = mResult.catalog

(***************************************************************************)
(* C19: catalog normalization, applied to bounded strings and to the       *)
(* catalog numbers the matcher returns                                     *)
(***************************************************************************)
\* longest string handed to the normalization
MaxCatalogLen == 3

CatalogChars == {"k", "K", " ", "1"}

CatalogStrings == UNION {[1..n -> CatalogChars] : n \in 0..MaxCatalogLen}

\* result lists of one record that carries such a string as its catno, with
\* and without a year
CatalogLists ==
    {<<Release(sArtist \o Separator \o sAlbum, x, y)>> :
        x \in CatalogStrings, y \in {0, 1999}}

\* either a string to normalize, or a result list for the matcher
InitNormalize ==
    /\ LimiterIdle
    /\ ThreadsIdle
    /\ ResolveIdle
    /\ mArtist = sArtist
    /\ mAlbum = sAlbum
    /\ mResult = NoSelection
    /\ \/ /\ nCatno \in CatalogStrings
          /\ nNormalized = nCatno
          /\ mReleases = << >>
          /\ mDone = TRUE
       \/ /\ NormalizerIdle
          /\ mReleases \in CatalogLists
          /\ mDone = FALSE

\* normalized_catalog = catno.replace(" ", "").upper(), applied to what the
\* last application returned
Normalize ==
    /\ mReleases = << >>
    /\ nNormalized' = NormalizeCatalog(nNormalized)
    /\ UNCHANGED <<mArtist, mAlbum, mReleases, mResult, mDone, nCatno, loaded, limVars,
                   threadVars, resolveVars>>

NextNormalize == Normalize \/ Match

SpecNormalize == InitNormalize /\ [][NextNormalize]_vars

\* C19: catalog normalization is idempotent, normalize(normalize(x)) =
\* normalize(x) for every string x, and the catalog number of every selection
\* the matcher returns is a fixed point of the normalization.
C19_NormalizeIdempotent ==
    [][/\ Normalize => NormalizeCatalog(nNormalized') = nNormalized'
       /\ Match => (mResult' # NoSelection =>
                        NormalizeCatalog(mResult'.catalog) = mResult'.catalog)]_vars

\* "k 1" has been normalized to "K1"
C19_Witness ==
    /\ nCatno = <<"k", " ", "1">>
    /\ nNormalized = <<"K", "1">>

(***************************************************************************)
(* C20                                                                     *)
(***************************************************************************)
\* the thread's last fetch_metadata call has returned
HasReturned(t) == pc[t] = "idle" /\ ret[t] \in {"metadata", "None"}

\* C20 as stated: resolve returns the response headers of the last network
\* call it made whenever it made at least one, whether its result is metadata
\* or none, and none for the headers exactly when it made no network call.
C20_HeadersOfLastCall ==
    \A t \in Threads :
        HasReturned(t) =>
            IF reqs[t] > 0 THEN response_headers[t] = reqs[t]
            ELSE response_headers[t] = 0

\* C20 amended: resolve returns the response headers of the last network
\* call it made whenever it returns metadata after at least one network
\* call, and none for the headers exactly when it was served from the cache
\* without any network call or its result is none.
C20_HeadersWithMetadata ==
    \A t \in Threads :
        HasReturned(t) =>
            IF ret[t] = "metadata" /\ reqs[t] > 0 THEN response_headers[t] = reqs[t]
            ELSE response_headers[t] = 0

\* metadata has come back with the headers of the call's second request
C20_Witness ==
    \E t \in Threads :
        /\ HasReturned(t)
        /\ ret[t] = "metadata"
        /\ reqs[t] = 2
        /\ response_headers[t] = 2

(***************************************************************************)
(* C21                                                                     *)
(***************************************************************************)
\* every thread is back from a call that missed the caches and sent
\* requests, and that had begun before any call returned for its key: the
\* calls ran side by side
AllMissedTogether ==
    \A t \in Threads : HasReturned(t) /\ reqs[t] > 0 /\ ~after[t]

\* the entries the two caches hold for key
EntriesFor(key) ==
    (IF InCache(key) THEN 1 ELSE 0) + (IF key \in failed_search_cache THEN 1 ELSE 0)

\* C21: when several callers resolve the same key side by side and all miss
\* the cache, then after all of them have returned the caches hold one
\* single entry for that key, the outcome of every later resolve of the key.
C21_ConvergeToOneEntry ==
    AllMissedTogether => \A key \in returned : EntriesFor(key) = 1

(***************************************************************************)
(* C22: one caller resolves, call after call, albums of KeyArgs.           *)
(***************************************************************************)
KeyCaller == "t1"

NextKeys ==
    \/ \E a \in KeyArgs : ResolveCall(KeyCaller, a)
    \/ AcquireCacheLock(KeyCaller)
    \/ CacheCheck(KeyCaller)
    \/ Send(KeyCaller)
    \/ \E http \in BOOLEAN : ExecFail(KeyCaller, http)
    \/ \E ra \in RetryAfterValues : Exec429(KeyCaller, ra)
    \/ \E b \in Bodies : ExecOk(KeyCaller, b)
    \/ AfterExecute(KeyCaller)
    \/ RetryWake(KeyCaller)
    \/ Wake429(KeyCaller)
    \/ NegWrite(KeyCaller)
    \/ PosWrite(KeyCaller)

SpecKeys == InitResolve /\ [][NextKeys]_vars

\* the cache lookup of thread t ends the call: it is served from a cache
ServedFromCache(t) == CacheCheck(t) /\ pc'[t] = "idle"

\* C22: a call is served from the entry that an earlier call with the same
\* normalized (artist, album) has written, and a call is never served from
\* an entry written by a call whose normalized (artist, album) differs.
C22_KeyIsNormalForm ==
    [][\A t \in Threads :
           CacheCheck(t) =>
               LET a == frame[t].args
               IN  /\ (\E w \in writers : w[2] = NormalForm(a)) => ServedFromCache(t)
                   /\ ServedFromCache(t) =>
                          \A w \in writers :
                              w[1] = cache_key[a] => w[2] = NormalForm(a)]_vars

(***************************************************************************)
(* C23                                                                     *)
(***************************************************************************)
\* the stage-1 working set
mTarget == TargetReleases(mReleases, Strip(mArtist), Strip(mAlbum))

\* no exact-title candidate has a usable catalog number, and a candidate of
\* the working set that matches the album only fuzzily has one
OnlyFuzzyUsable ==
    /\ mExact # << >>
    /\ NonNone(mExact) = << >>
    /\ \E i \in 1..Len(mTarget) :
           ~IsExactAlbumTitle(mTarget[i], Strip(mAlbum)) /\ UsableCatno(mTarget[i])

\* C23: whenever the stage-1 working set holds a candidate whose album
\* portion equals the queried album case-insensitively, the selected record
\* is such an exact-title candidate, also when no exact-title candidate has
\* a usable catalog number and a fuzzy-matching candidate has one.
C23_ExactTitleFirst ==
    (mDone /\ mExact # << >>) => InSeq(mResult.release, mExact)

\* an exact-title candidate without usable catalog number is selected
\* although a fuzzy match carries one
C23_Witness ==
    /\ mDone
    /\ OnlyFuzzyUsable
    /\ InSeq(mResult.release, mExact)
    /\ mResult.catalog \in {NONE, UNKNOWN}

(***************************************************************************)
(* C24                                                                     *)
(***************************************************************************)
\* enforce_api_limit of thread t returns in this step
AcquireReturns(t) ==
    \/ TryAcquire(t) /\ pc'[t] = "idle"
    \/ Wake(t)

\* thread t calls enforce_api_limit inside the window with no budget left
AcquireExhausted(t) ==
    TryAcquire(t) /\ ~NewWindow(CurrentRate) /\ rate_limit_remaining <= 0

\* C24: a tryAcquire call made with remaining = 0 inside the current window
\* waits windowLength - elapsed, a strictly positive time, then resets the
\* window (remaining = total, used = 0) and returns allowed; no tryAcquire
\* call ever returns not-allowed.
C24_AlwaysAllowed ==
    [][\A t \in Threads :
           /\ AcquireExhausted(t) =>
                  /\ pc'[t] = "sleep"
                  /\ sleep_left'[t] = API_RATE_LIMIT_WAIT - window_age
                  /\ sleep_left'[t] > 0
           /\ Wake(t) =>
                  /\ window_age' = 0
                  /\ rate_limit_remaining' = rate_limit_total
                  /\ rate_limit_used' = 0
           /\ AcquireReturns(t) =>
                  (lastCall'.op = "tryAcquire" /\ lastCall'.allowed)]_vars

(***************************************************************************)
(* C25                                                                     *)
(***************************************************************************)
\* oldest_release, the record that the selection by year chooses
mOldest == OldestRelease(mWithYear, mReleases, Strip(mArtist), Strip(mAlbum))

\* the year-bearing candidates whose artist portion fuzzy-matches the artist
mArtistVerified ==
    {r \in SeqToSet(mWithYear) : HasSeparator(r) /\ ArtistMatch(r, Strip(mArtist))}

\* the year-bearing candidates that the loop over releases_with_year accepts
mReVerified ==
    {r \in SeqToSet(mWithYear) : ReVerified(r, mReleases, Strip(mArtist), Strip(mAlbum))}

\* r is one of candidates when there are any, and no record of candidates,
\* or of all year-bearing records when there are none, is older
OldestAmong(r, candidates) ==
    IF candidates # {}
    THEN r \in candidates /\ \A c \in candidates : r.year <= c.year
    ELSE \A c \in SeqToSet(mWithYear) : r.year <= c.year

\* C25 as stated: when the filtered set holds a year-bearing candidate, the
\* record chosen by the selection by year has the minimum year among the
\* year-bearing candidates whose artist portion fuzzy-matches the queried
\* artist, and the globally minimum year only when there is no such one.
C25_OldestArtistVerified ==
    (mDone /\ mWithYear # << >>) => OldestAmong(mOldest, mArtistVerified)

\* C25, amended: the record chosen has the minimum year among the
\* year-bearing candidates that re-verify, which are those whose artist
\* portion fuzzy-matches the artist and those without an artist portion that
\* were stage-1 album matches; the globally minimum year only when none
\* re-verifies.  With a usable catalog number it is the selected record.
C25_OldestReVerified ==
    (mDone /\ mWithYear # << >>) =>
        /\ OldestAmong(mOldest, mReVerified)
        /\ UsableCatno(mOldest) => mResult.release = mOldest

\* "Ce" of 1985 without an artist portion is chosen before "Ab - Ce" of 1999
C25_Witness ==
    /\ mDone
    /\ Len(mWithYear) = 2
    /\ mArtistVerified # {}
    /\ mOldest \notin mArtistVerified
    /\ mOldest.year = 1985
    /\ mResult.release = mOldest

(***************************************************************************)
(* C26                                                                     *)
(***************************************************************************)
\* the records of the filtered set whose normalized catalog number is c
CarryingNormalized(c) ==
    {i \in 1..Len(mFiltered) : NormalizedCatno(mFiltered[i]) = c}

\* C26: the frequency-based fallback counts catalog numbers by their
\* normalized form (uppercase, spaces removed), values that differ only in
\* case or spaces being one value: no usable normalized value is carried by
\* more records than the chosen one.  The chosen catalog number is never
\* "NONE" or empty when the filtered set holds a usable catalog number.
C26_CountsNormalizedForms ==
    (mDone /\ mWithYear = << >> /\ mUsableCatalogs # << >>) =>
        /\ mResult.catalog \notin {NONE, << >>}
        /\ \A i \in 1..Len(mUsableCatalogs) :
               Cardinality(CarryingNormalized(mUsableCatalogs[i]))
                   <= Cardinality(CarryingNormalized(mResult.catalog))

(***************************************************************************)
(* C27: the rate-limit globals of api_client.py written by several         *)
(* threads.  The module has no lock, so every read and every write of a    *)
(* global is a step of its own: "rate_limit_used += 1" reads the global    *)
(* and writes it back later, and the three assignments of a window reset   *)
(* are three steps.  Here sent_in_window counts the responses that         *)
(* header-less observe calls have counted since the counters were last     *)
(* reset.                                                                  *)
(***************************************************************************)
\* update_rate_limits_from_headers(None): rate_limit_used is read
LoadUsed(t) ==
    /\ pc[t] = "idle"
    /\ rate_limit_used < MaxUsed
    /\ sent_in_window < MaxUsed
    /\ loaded' = [loaded EXCEPT ![t] = rate_limit_used]
    /\ pc' = [pc EXCEPT ![t] = "used_loaded"]
    /\ UNCHANGED <<matchVars, limVars, reqs, ret, resolveVars>>

\* rate_limit_used += 1 is written back
StoreUsed(t) ==
    /\ pc[t] = "used_loaded"
    /\ rate_limit_used' = loaded[t] + 1
    /\ pc' = [pc EXCEPT ![t] = "used_stored"]
    /\ UNCHANGED <<matchVars, loaded, rate_limit_total, rate_limit_remaining,
                   window_age, sleep_left, lastCall, sent_in_window, reqs, ret,
                   resolveVars>>

\* rate_limit_remaining is read for max(0, rate_limit_remaining - 1)
LoadRemaining(t) ==
    /\ pc[t] = "used_stored"
    /\ loaded' = [loaded EXCEPT ![t] = rate_limit_remaining]
    /\ pc' = [pc EXCEPT ![t] = "remaining_loaded"]
    /\ UNCHANGED <<matchVars, limVars, reqs, ret, resolveVars>>

\* rate_limit_remaining = max(0, rate_limit_remaining - 1) is written, the
\* call returns
StoreRemaining(t) ==
    /\ pc[t] = "remaining_loaded"
    /\ rate_limit_remaining' = MaxOf(0, loaded[t] - 1)
    /\ sent_in_window' = sent_in_window + 1
    /\ lastCall' = [NoCall EXCEPT !.op = "observe"]
    /\ pc' = [pc EXCEPT ![t] = "idle"]
    /\ UNCHANGED <<matchVars, loaded, rate_limit_total, rate_limit_used, window_age,
                   sleep_left, reqs, ret, resolveVars>>

\* enforce_api_limit up to first_request_time = current_time, up to
\* time.sleep(wait_time), or up to its return
EnforceTest(t) ==
    /\ pc[t] = "idle"
    /\ IF NewWindow(CurrentRate)
       THEN /\ window_age' = 0
            /\ pc' = [pc EXCEPT ![t] = "reset_remaining"]
            /\ UNCHANGED <<sleep_left, lastCall>>
       ELSE IF rate_limit_remaining <= 0
       THEN /\ pc' = [pc EXCEPT ![t] = "sleep"]
            /\ sleep_left' = [sleep_left EXCEPT ![t] = WaitTime(CurrentRate)]
            /\ UNCHANGED <<window_age, lastCall>>
       ELSE /\ lastCall' = [NoCall EXCEPT !.op = "tryAcquire",
                                          !.allowed = rate_limit_remaining > 0]
            /\ UNCHANGED <<window_age, pc, sleep_left>>
    /\ UNCHANGED <<matchVars, loaded, rate_limit_total, rate_limit_used,
                   rate_limit_remaining, sent_in_window, reqs, ret, resolveVars>>

\* time.sleep(wait_time) ends: first_request_time = time.time()
EnforceWake(t) ==
    /\ pc[t] = "sleep"
    /\ sleep_left[t] = 0
    /\ window_age' = 0
    /\ pc' = [pc EXCEPT ![t] = "reset_remaining"]
    /\ UNCHANGED <<matchVars, loaded, rate_limit_total, rate_limit_used,
                   rate_limit_remaining, sleep_left, lastCall, sent_in_window,
                   reqs, ret, resolveVars>>

\* rate_limit_remaining = rate_limit_total
ResetRemaining(t) ==
    /\ pc[t] = "reset_remaining"
    /\ rate_limit_remaining' = rate_limit_total
    /\ pc' = [pc EXCEPT ![t] = "reset_used"]
    /\ UNCHANGED <<matchVars, loaded, rate_limit_total, rate_limit_used, window_age,
                   sleep_left, lastCall, sent_in_window, reqs, ret, resolveVars>>

\* rate_limit_used = 0, then return rate_limit_remaining > 0
ResetUsed(t) ==
    /\ pc[t] = "reset_used"
    /\ rate_limit_used' = 0
    /\ sent_in_window' = 0
    /\ lastCall' = [NoCall EXCEPT !.op = "tryAcquire",
                                  !.allowed = rate_limit_remaining > 0]
    /\ pc' = [pc EXCEPT ![t] = "idle"]
    /\ UNCHANGED <<matchVars, loaded, rate_limit_total, rate_limit_remaining,
                   window_age, sleep_left, reqs, ret, resolveVars>>

NextRace ==
    \/ Tick
    \/ \E t \in Threads : LoadUsed(t)
    \/ \E t \in Threads : StoreUsed(t)
    \/ \E t \in Threads : LoadRemaining(t)
    \/ \E t \in Threads : StoreRemaining(t)
    \/ \E t \in Threads : EnforceTest(t)
    \/ \E t \in Threads : EnforceWake(t)
    \/ \E t \in Threads : ResetRemaining(t)
    \/ \E t \in Threads : ResetUsed(t)

SpecRace == InitLimiter /\ [][NextRace]_vars

\* where a thread is between the read and the write of an observe call
MidObserve == {"used_loaded", "used_stored", "remaining_loaded"}

\* where a thread is between the assignments of a window reset
MidReset == {"reset_remaining", "reset_used"}

\* C27: the rate-limit state is read and updated atomically.  Whenever no
\* call is running, the header-less observe calls since the last reset have
\* each added one to used and taken one from remaining, down to 0 (no lost
\* update), and a window reset by one caller is never interleaved with
\* another caller's partial update of the counters.
C27_AtomicUpdates ==
    /\ (\A t \in Threads : pc[t] = "idle") =>
           /\ rate_limit_used = sent_in_window
           /\ rate_limit_remaining = MaxOf(0, rate_limit_total - sent_in_window)
    /\ \A t \in Threads, u \in Threads :
           ~(pc[t] \in MidReset /\ pc[u] \in MidObserve)

(***************************************************************************)
(* C28                                                                     *)
(***************************************************************************)
\* the requests that may fail while one call sends its two queries without
\* a title: each make_api_request gives up after max_retries of them
MaxCallFailures == 2 * MaxRetries

\* the album that the failing caller asks for
FailureArgs == Args(sArtist, sAlbum, << >>)

\* one caller resolving one album over and over, the server free to fail
\* every request of a whole call
NextFailures ==
    \/ ResolveCall(KeyCaller, FailureArgs)
    \/ AcquireCacheLock(KeyCaller)
    \/ CacheCheck(KeyCaller)
    \/ Send(KeyCaller)
    \/ \E http \in BOOLEAN : ExecFailWithin(KeyCaller, http, MaxCallFailures)
    \/ \E ra \in RetryAfterValues : Exec429(KeyCaller, ra)
    \/ \E b \in Bodies : ExecOk(KeyCaller, b)
    \/ AfterExecute(KeyCaller)
    \/ RetryWake(KeyCaller)
    \/ Wake429(KeyCaller)
    \/ NegWrite(KeyCaller)
    \/ PosWrite(KeyCaller)

SpecFailures == InitResolve /\ [][NextFailures]_vars

\* C28: a resolve call all of whose queries ended in a transport failure
\* (no query returned a result list, empty or not) does not add its key to
\* the negative cache, and the next call with that key is not answered from
\* the negative cache but sends a request.
C28_FailuresNotCached ==
    [][\A t \in Threads :
           /\ NegWrite(t) => ~frame[t].failed
           /\ (pc[t] \in {"lock_neg", "neg_write"} /\ frame[t].failed
               /\ pc'[t] = "idle") =>
                  cache_key[frame[t].args] \notin failed_search_cache']_vars

(***************************************************************************)
(* C29                                                                     *)
(***************************************************************************)
\* make_api_request has handed fetch_metadata a non-empty result list
HoldsResults(t) ==
    /\ pc[t] = "executed"
    /\ frame[t].response_data.truthy /\ frame[t].response_data.dict
    /\ frame[t].response_data.results # << >>

\* C29: when a query of a call that missed the caches returns a non-empty
\* result list, the final filtered set is non-empty, the selected record is
\* one of its members, and the call goes on to write metadata with a
\* non-empty catalog number into the positive cache and to return it; it
\* does not return none and does not write the negative cache.
C29_ResultsGiveMetadata ==
    [][\A t \in Threads :
           /\ (HoldsResults(t) /\ AfterExecute(t)) =>
                  LET a == frame[t].args
                      r == frame[t].response_data.results
                      filtered == FilteredReleases(r, Strip(a.artist), Strip(a.album))
                  IN  /\ filtered # << >>
                      /\ InSeq(Selected[a, r].release, filtered)
                      /\ pc'[t] = "lock_pos"
                      /\ meta'[t] # NoMeta
                      /\ meta'[t].catalog_number # << >>
           /\ PosWrite(t) =>
                  /\ ret'[t] = "metadata"
                  /\ ret'[t] # "None"
                  /\ album_catalog_cache'[cache_key[frame[t].args]] = meta'[t]
                  /\ failed_search_cache' = failed_search_cache]_vars

(***************************************************************************)
(* C30                                                                     *)
(***************************************************************************)
\* C30: with a server that never sends rate-limit headers, in every
\* reachable state, whatever the interleaving of the callers' enforce, send
\* and update steps, 0 <= remaining <= total, 0 <= used <= total and
\* used + remaining = total.
C30_CountersConsistent ==
    /\ 0 <= rate_limit_remaining /\ rate_limit_remaining <= rate_limit_total
    /\ 0 <= rate_limit_used /\ rate_limit_used <= rate_limit_total
    /\ rate_limit_used + rate_limit_remaining = rate_limit_total

====
